---- MODULE Spec2Model ----
(***************************************************************************)
(* Model of cloudbaseinit/metadata/services/base.py: BaseMetadataService,  *)
(* the caching and retrying base of the metadata service backends.         *)
(*                                                                         *)
(* Strings are sequences of tokens.  "/" and "." are always tokens of      *)
(* their own; every other token is a non-empty chunk of characters that    *)
(* holds no "/" and is not made of dots only ("openstack", "latest",      *)
(* "meta_data.json").  The JSON characters { } [ ] : , and the double      *)
(* quote and every digit are tokens of their own as well.                  *)
(***************************************************************************)
EXTENDS Integers, Sequences, FiniteSets, TLC

VARIABLES
    _cache,          \* instance -> (normalized path -> fetched value)
    _enable_retry,   \* instance -> BOOLEAN
    conf,            \* CONF: [retry_count, retry_count_interval]
    backend,         \* instance -> BOOLEAN: the backend overrides _post_data
    call,            \* the public call in progress or the last one finished
    requested,       \* instance -> paths the read accessors asked for since load()
    fetched,         \* instance -> paths a read got from _get_data since load()
    dropped,         \* instance -> paths the last load() removed from the cache
    ncalls,          \* public calls started so far
    gw               \* _get_metadata_base_url: the adapters and the call

vars == <<_cache, _enable_retry, conf, backend, call, requested, fetched,
          dropped, ncalls, gw>>

----------------------------------------------------------------------------
(* Bounds of the model.                                                    *)

MaxCalls == 3
MaxRetryCount == 3

\* Adapters in the answer of the WMI query.
MaxAdapters == 3

----------------------------------------------------------------------------
(* posixpath.join and posixpath.normpath, as the accessors use them.       *)

Slash == <<"/">>

startswith_slash(s) == Len(s) > 0 /\ s[1] = "/"

endswith_slash(s) == Len(s) > 0 /\ s[Len(s)] = "/"

\* posixpath.join(a, b): an absolute b replaces the path, otherwise b is
\* appended with one separator unless the path is empty or ends with one.
join2(a, b) ==
    IF startswith_slash(b) THEN b
    ELSE IF a = <<>> \/ endswith_slash(a) THEN a \o b
    ELSE a \o Slash \o b

join(a, b, c) == join2(join2(a, b), c)

\* path.split('/'): the components between separators, empty ones included.
RECURSIVE split(_, _, _)
split(s, cur, acc) ==
    IF s = <<>> THEN Append(acc, cur)
    ELSE IF Head(s) = "/" THEN split(Tail(s), <<>>, Append(acc, cur))
    ELSE split(Tail(s), Append(cur, Head(s)), acc)

DotDot == <<".", ".">>

\* The loop of normpath over the components.
RECURSIVE norm_comps(_, _, _)
norm_comps(comps, new_comps, initial_slashes) ==
    IF comps = <<>> THEN new_comps
    ELSE LET comp == Head(comps)
             n == Len(new_comps)
         IN IF comp = <<>> \/ comp = <<".">>
            THEN norm_comps(Tail(comps), new_comps, initial_slashes)
            ELSE IF comp # DotDot
                    \/ (initial_slashes = 0 /\ n = 0)
                    \/ (n > 0 /\ new_comps[n] = DotDot)
            THEN norm_comps(Tail(comps), Append(new_comps, comp), initial_slashes)
            ELSE IF n > 0
            THEN norm_comps(Tail(comps), SubSeq(new_comps, 1, n - 1), initial_slashes)
            ELSE norm_comps(Tail(comps), new_comps, initial_slashes)

\* slash.join(comps)
RECURSIVE slash_join(_)
slash_join(comps) ==
    IF comps = <<>> THEN <<>>
    ELSE IF Len(comps) = 1 THEN comps[1]
    ELSE comps[1] \o Slash \o slash_join(Tail(comps))

initial_slashes_of(path) ==
    IF ~startswith_slash(path) THEN 0
    ELSE IF Len(path) >= 2 /\ path[2] = "/" /\ ~(Len(path) >= 3 /\ path[3] = "/")
    THEN 2
    ELSE 1

\* A normpath that leaves the path as join made it.
normpath_keep(path) == path

normpath(path) ==
    IF path = <<>> THEN <<".">>
    ELSE LET ini == initial_slashes_of(path)
             comps == norm_comps(split(path, <<>>, <<>>), <<>>, ini)
             body == slash_join(comps)
             res == IF ini = 2 THEN <<"/", "/">> \o body
                    ELSE IF ini = 1 THEN Slash \o body
                    ELSE body
         IN IF res = <<>> THEN <<".">> ELSE res

----------------------------------------------------------------------------
(* Python values: a record of the type's name and the value.  Strings hold *)
(* their tokens, a list its elements, a dict the function from its keys.   *)

EmptyMap == [k \in {} |-> k]

PyNone == [t |-> "NoneType", v |-> <<>>]
Str(s) == [t |-> "str", v |-> s]
Unicode(s) == [t |-> "unicode", v |-> s]
PyInt(n) == [t |-> "int", v |-> n]
PyBool(b) == [t |-> "bool", v |-> b]
PyList(l) == [t |-> "list", v |-> l]
PyDict(f) == [t |-> "dict", v |-> f]

\* A raised exception, by the name of its class.
Exc(name) == [t |-> "exc", v |-> name]

NotExistingMetadataException == Exc("NotExistingMetadataException")

is_exc(x) == x.t = "exc"

\* A local variable that is not assigned yet.
Unset == [t |-> "unset", v |-> <<>>]

----------------------------------------------------------------------------
(* json.loads on a str: objects, arrays, strings without escapes,          *)
(* non-negative integers and the literals true, false and null.  A string  *)
(* given to it holds no white space, sign, exponent, backslash, NaN or     *)
(* Infinity, and no two chunks next to each other.                         *)

Digits == {"0", "1", "2", "3", "4", "5", "6", "7", "8", "9"}

DigitVal(c) ==
    CASE c = "0" -> 0 [] c = "1" -> 1 [] c = "2" -> 2 [] c = "3" -> 3
      [] c = "4" -> 4 [] c = "5" -> 5 [] c = "6" -> 6 [] c = "7" -> 7
      [] c = "8" -> 8 [] c = "9" -> 9

ParseFail == [ok |-> FALSE, val |-> PyNone, rest |-> <<>>]
ParseOk(val, rest) == [ok |-> TRUE, val |-> val, rest |-> rest]

\* The characters of a JSON string up to its closing quote.
RECURSIVE scan_string(_, _)
scan_string(s, acc) ==
    IF s = <<>> THEN ParseFail
    ELSE IF Head(s) = "\"" THEN ParseOk(Unicode(acc), Tail(s))
    ELSE scan_string(Tail(s), Append(acc, Head(s)))

RECURSIVE scan_digits(_, _)
scan_digits(s, n) ==
    IF s # <<>> /\ Head(s) \in Digits
    THEN scan_digits(Tail(s), 10 * n + DigitVal(Head(s)))
    ELSE ParseOk(PyInt(n), s)

\* A fraction after the integer part makes a float: [int part, digits].
RECURSIVE scan_frac(_, _, _)
scan_frac(s, n, frac) ==
    IF s # <<>> /\ Head(s) \in Digits
    THEN scan_frac(Tail(s), n, Append(frac, DigitVal(Head(s))))
    ELSE ParseOk([t |-> "float", v |-> <<n, frac>>], s)

\* NUMBER_RE: 0 or a digit string without a leading zero, then .digits
scan_number(s) ==
    LET int == IF Head(s) = "0" THEN ParseOk(PyInt(0), Tail(s))
               ELSE scan_digits(s, 0)
        r == int.rest
    IN IF Len(r) >= 2 /\ r[1] = "." /\ r[2] \in Digits
       THEN scan_frac(Tail(r), int.val.v, <<>>)
       ELSE int

dict_set(f, key, val) ==
    [k \in DOMAIN f \cup {key} |-> IF k = key THEN val ELSE f[k]]

RECURSIVE scan_once(_), JSONObject(_, _), JSONArray(_, _)

scan_once(s) ==
    IF s = <<>> THEN ParseFail
    ELSE LET c == Head(s)
             r == Tail(s)
         IN CASE c = "\"" -> scan_string(r, <<>>)
              [] c = "{" -> IF r # <<>> /\ Head(r) = "}"
                            THEN ParseOk(PyDict(EmptyMap), Tail(r))
                            ELSE JSONObject(r, EmptyMap)
              [] c = "[" -> IF r # <<>> /\ Head(r) = "]"
                            THEN ParseOk(PyList(<<>>), Tail(r))
                            ELSE JSONArray(r, <<>>)
              [] c = "null" -> ParseOk(PyNone, r)
              [] c = "true" -> ParseOk(PyBool(TRUE), r)
              [] c = "false" -> ParseOk(PyBool(FALSE), r)
              [] c \in Digits -> scan_number(s)
              [] OTHER -> ParseFail

\* The pairs of an object: "key" : value, then , or }.  A repeated key keeps
\* its last value.
JSONObject(s, pairs) ==
    IF s = <<>> \/ Head(s) # "\"" THEN ParseFail
    ELSE LET key == scan_string(Tail(s), <<>>)
         IN IF ~key.ok \/ key.rest = <<>> \/ Head(key.rest) # ":" THEN ParseFail
            ELSE LET value == scan_once(Tail(key.rest))
                     new_pairs == dict_set(pairs, key.val.v, value.val)
                 IN IF ~value.ok \/ value.rest = <<>> THEN ParseFail
                    ELSE IF Head(value.rest) = "}"
                    THEN ParseOk(PyDict(new_pairs), Tail(value.rest))
                    ELSE IF Head(value.rest) = ","
                    THEN JSONObject(Tail(value.rest), new_pairs)
                    ELSE ParseFail

\* The elements of an array: value, then , or ].
JSONArray(s, values) ==
    LET value == scan_once(s)
        new_values == Append(values, value.val)
    IN IF ~value.ok \/ value.rest = <<>> THEN ParseFail
       ELSE IF Head(value.rest) = "]"
       THEN ParseOk(PyList(new_values), Tail(value.rest))
       ELSE IF Head(value.rest) = ","
       THEN JSONArray(Tail(value.rest), new_values)
       ELSE ParseFail

\* json.loads(s): the value of the whole string, or ValueError.
json_loads(s) ==
    LET r == scan_once(s)
    IN IF r.ok /\ r.rest = <<>> THEN r.val ELSE Exc("ValueError")

\* len(data) > 0, or TypeError for a value without a length.
has_len(data) == data.t \in {"str", "unicode", "list", "dict"}

len_positive(data) ==
    IF data.t = "dict" THEN DOMAIN data.v # {} ELSE data.v # <<>>

----------------------------------------------------------------------------
(* The instances, the arguments of the calls and the answers of a backend. *)

Instances == {"svc1", "svc2"}

Quote == "\""

DataTypes == { <<"openstack">> }
Versions == { <<"latest">>, <<"latest", "/", ".">> }
Names == { <<".", ".", "/", "latest", "/", "password">>,
           <<".", ".", "/", ".", ".", "/", ".", ".">> }
EncPasswords == { <<"cGFzcw==">> }

\* What _get_data may return: an empty string (no JSON document either), a
\* JSON document as a str, the same document as a unicode string, and an
\* already structured value.
DataValues ==
    { Str(<<>>),
      Str(<<"{", Quote, "uuid", Quote, ":", Quote, "abc", Quote, "}">>),
      Unicode(<<"{", Quote, "uuid", Quote, ":", Quote, "abc", Quote, "}">>),
      PyDict(<<"uuid">> :> Unicode(<<"abc">>)) }

\* What an overriding _post_data may return.
PostValues == { PyBool(TRUE) }

\* Any failure that is not NotExistingMetadataException.
TransientErrors == { Exc("IOError") }

RetryCounts == -1 .. MaxRetryCount
RetryIntervals == { 4 }

----------------------------------------------------------------------------
(* The paths of the accessors.                                             *)

content_path(data_type, name) ==
    normpath(join(data_type, <<"content">>, name))

user_data_path(data_type, version) ==
    normpath(join(data_type, version, <<"user_data">>))

meta_data_path(data_type, version) ==
    normpath(join(data_type, version, <<"meta_data.json">>))

_get_password_path(version) ==
    normpath(join(<<"openstack">>, version, <<"password">>))

Paths ==
    { content_path(d, n) : d \in DataTypes, n \in Names }
    \cup { user_data_path(d, v) : d \in DataTypes, v \in Versions }
    \cup { meta_data_path(d, v) : d \in DataTypes, v \in Versions }
    \cup { _get_password_path(v) : v \in Versions }

ReadOps == {"get_content", "get_user_data", "get_meta_data"}

----------------------------------------------------------------------------
(* The cache and the retry decision.                                       *)

\* A lookup that never finds the path.
cache_has_never(cache, path) == FALSE

\* path in self._cache
cache_has(cache, path) == path \in DOMAIN cache

\* A store that is lost, and a store that replaces the whole cache.
cache_put_lost(cache, path, data) == cache

cache_put_only(cache, path, data) == [p \in {path} |-> data]

\* self._cache[path] = data
cache_put(cache, path, data) ==
    [p \in DOMAIN cache \cup {path} |-> IF p = path THEN data ELSE cache[p]]

\* A load() that keeps the cache.
load_cache_keeps(cache) == cache

\* load(): self._cache = {}
load_cache(cache) == EmptyMap

\* A wrapper without the except clause of NotExistingMetadataException.
is_not_existing_never(exc) == FALSE

\* except NotExistingMetadataException: raise
is_not_existing(exc) == exc = NotExistingMetadataException

\* A loop that counts the attempts, and one that ignores _enable_retry.
should_retry_attempts(enable_retry, i, retry_count) ==
    enable_retry /\ i + 1 < retry_count

should_retry_always(enable_retry, i, retry_count) == i < retry_count

\* A retry test that lets i reach retry_count + 1.
should_retry_le(enable_retry, i, retry_count) == enable_retry /\ i <= retry_count

\* if self._enable_retry and i < CONF.retry_count
should_retry(enable_retry, i, retry_count) == enable_retry /\ i < retry_count

\* What a read accessor returns for the data _get_cache_data gave it:
\* get_meta_data parses a str as JSON, the others return the data.
read_result(op, data) ==
    IF op = "get_meta_data" /\ data.t = "str" THEN json_loads(data.v) ELSE data

\* get_meta_data asks _get_cache_data a second time for a str: a cache hit.
read_events(op, data) ==
    IF op = "get_meta_data" /\ data.t = "str" THEN <<"hit">> ELSE <<>>

\* len(data) >= 0
password_is_set_ge(data) ==
    IF has_len(data) THEN PyBool(TRUE) ELSE Exc("TypeError")

\* is_password_set: len(data) > 0
password_is_set(data) ==
    IF has_len(data) THEN PyBool(len_positive(data)) ELSE Exc("TypeError")

----------------------------------------------------------------------------
(* The state.                                                              *)

\* A call: its operation, instance and path, where it stands (in the action
\* of _exec_with_retry, in its sleep, or done), the loop counter i, what it
\* did so far (a cache "hit", an attempt that ended in "return" or in the
\* named exception, a "sleep"), the seconds slept, the data it got, its
\* result (a value, or the exception it raised), the cache it started with
\* and the paths the read accessors had asked for when it started.
NoCall ==
    [op |-> "__init__", inst |-> "", path |-> <<>>, pc |-> "done", i |-> 0,
     events |-> <<>>, slept |-> 0, data |-> Unset, result |-> PyNone,
     cache0 |-> EmptyMap, requested0 |-> {}]


\* No _get_metadata_base_url was called; wmi_out is what the WMI query
\* returns on this host.
NoUrlCall(wmi_out) ==
    [wmi_out |-> wmi_out, pc |-> "idle", metadata_base_url |-> <<>>,
     queries |-> 0, result |-> <<>>, calls |-> 0]

\* __init__ of every instance, and the configuration read at startup.
Init ==
    /\ _cache = [s \in Instances |-> EmptyMap]
    /\ _enable_retry = [s \in Instances |-> FALSE]
    /\ conf \in [retry_count : RetryCounts, retry_count_interval : RetryIntervals]
    /\ backend \in [Instances -> BOOLEAN]
    /\ call = NoCall
    /\ requested = [s \in Instances |-> {}]
    /\ fetched = [s \in Instances |-> {}]
    /\ dropped = [s \in Instances |-> {}]
    /\ ncalls = 0
    /\ gw = NoUrlCall(<<>>)

\* No call is running and another one may start.
CanCall == call.pc = "done" /\ ncalls < MaxCalls

NewCall(op, inst, path) ==
    [op |-> op, inst |-> inst, path |-> path, pc |-> "action", i |-> 0,
     events |-> <<>>, slept |-> 0, data |-> Unset, result |-> PyNone,
     cache0 |-> _cache[inst], requested0 |-> requested[inst]]

Return(c, events, data, result) ==
    [c EXCEPT !.pc = "done", !.events = events, !.data = data, !.result = result]

----------------------------------------------------------------------------
(* The operations.                                                         *)

\* The constructor of a subclass, before the service is used:
\* self._enable_retry = True
set_enable_retry(inst) ==
    /\ call = NoCall
    /\ ~_enable_retry[inst]
    /\ _enable_retry' = [_enable_retry EXCEPT ![inst] = TRUE]
    /\ UNCHANGED <<gw, _cache, conf, backend, call, requested, fetched, dropped, ncalls>>

\* A load() that clears a cache shared by the instances.
load_all(inst) ==
    /\ CanCall
    /\ _cache' = [s \in Instances |-> EmptyMap]
    /\ call' = Return(NewCall("load", inst, <<>>), <<>>, Unset, PyNone)
    /\ requested' = [requested EXCEPT ![inst] = {}]
    /\ fetched' = [fetched EXCEPT ![inst] = {}]
    /\ dropped' = [dropped EXCEPT ![inst] = DOMAIN _cache[inst]]
    /\ ncalls' = ncalls + 1
    /\ UNCHANGED <<gw, _enable_retry, conf, backend>>

load(inst) ==
    /\ CanCall
    /\ _cache' = [_cache EXCEPT ![inst] = load_cache(@)]
    /\ call' = Return(NewCall("load", inst, <<>>), <<>>, Unset, PyNone)
    /\ requested' = [requested EXCEPT ![inst] = {}]
    /\ fetched' = [fetched EXCEPT ![inst] = {}]
    /\ dropped' = [dropped EXCEPT ![inst] = DOMAIN _cache[inst]]
    /\ ncalls' = ncalls + 1
    /\ UNCHANGED <<gw, _enable_retry, conf, backend>>

\* A cleanup() that drops the cache.
cleanup_clears(inst) ==
    /\ CanCall
    /\ _cache' = [_cache EXCEPT ![inst] = EmptyMap]
    /\ call' = Return(NewCall("cleanup", inst, <<>>), <<>>, Unset, PyNone)
    /\ ncalls' = ncalls + 1
    /\ UNCHANGED <<gw, _enable_retry, conf, backend, requested, fetched, dropped>>

cleanup(inst) ==
    /\ CanCall
    /\ call' = Return(NewCall("cleanup", inst, <<>>), <<>>, Unset, PyNone)
    /\ ncalls' = ncalls + 1
    /\ UNCHANGED <<gw, _cache, _enable_retry, conf, backend, requested, fetched, dropped>>

\* _get_cache_data(path) up to the first attempt: a hit returns the cached
\* copy, a miss enters _exec_with_retry.
_get_cache_data(op, inst, path) ==
    /\ CanCall
    /\ IF cache_has(_cache[inst], path)
       THEN LET data == _cache[inst][path]
            IN call' = Return(NewCall(op, inst, path),
                              <<"hit">> \o read_events(op, data),
                              data, read_result(op, data))
       ELSE call' = NewCall(op, inst, path)
    /\ requested' = [requested EXCEPT ![inst] = @ \cup {path}]
    /\ ncalls' = ncalls + 1
    /\ UNCHANGED <<gw, _cache, _enable_retry, conf, backend, fetched, dropped>>

get_content(inst, data_type, name) ==
    _get_cache_data("get_content", inst, content_path(data_type, name))

get_user_data(inst, data_type, version) ==
    _get_cache_data("get_user_data", inst, user_data_path(data_type, version))

get_meta_data(inst, data_type, version) ==
    _get_cache_data("get_meta_data", inst, meta_data_path(data_type, version))

post_password(inst, enc_password_b64, version) ==
    /\ CanCall
    /\ call' = [NewCall("post_password", inst, _get_password_path(version))
                    EXCEPT !.data = Str(enc_password_b64)]
    /\ ncalls' = ncalls + 1
    /\ UNCHANGED <<gw, _cache, _enable_retry, conf, backend, requested, fetched, dropped>>

\* An is_password_set that looks the password path up in the cache first.
is_password_set_cached(inst, version, out) ==
    /\ CanCall
    /\ LET path == _get_password_path(version)
           data == IF cache_has(_cache[inst], path) THEN _cache[inst][path] ELSE out
       IN call' = Return(NewCall("is_password_set", inst, path),
                         <<IF cache_has(_cache[inst], path) THEN "hit"
                           ELSE IF is_exc(out) THEN out.v ELSE "return">>,
                         IF is_exc(data) THEN Unset ELSE data,
                         IF is_exc(data) THEN data ELSE password_is_set(data))
    /\ ncalls' = ncalls + 1
    /\ UNCHANGED <<gw, _cache, _enable_retry, conf, backend, requested, fetched, dropped>>

\* is_password_set: one _get_data, outside the cache and the retry loop.
is_password_set(inst, version, out) ==
    /\ CanCall
    /\ call' = Return(NewCall("is_password_set", inst, _get_password_path(version)),
                      <<IF is_exc(out) THEN out.v ELSE "return">>,
                      IF is_exc(out) THEN Unset ELSE out,
                      IF is_exc(out) THEN out ELSE password_is_set(out))
    /\ ncalls' = ncalls + 1
    /\ UNCHANGED <<gw, _cache, _enable_retry, conf, backend, requested, fetched, dropped>>

----------------------------------------------------------------------------
(* _exec_with_retry: the attempts of the call in progress.                 *)

\* The action is _get_data for a read and _post_data for post_password.
InAction == call.pc = "action"

\* What the action can raise: the base _post_data only raises
\* NotExistingMetadataException.
Failures ==
    IF call.op = "post_password" /\ ~backend[call.inst]
    THEN {NotExistingMetadataException}
    ELSE {NotExistingMetadataException} \cup TransientErrors

\* return action(): the value is stored by _get_cache_data and returned.
exec_return(out) ==
    /\ InAction
    /\ call.op = "post_password" => backend[call.inst]
    /\ IF call.op \in ReadOps
       THEN /\ _cache' = [_cache EXCEPT ![call.inst] = cache_put(@, call.path, out)]
            /\ call' = Return(call,
                              Append(call.events, "return") \o read_events(call.op, out),
                              out, read_result(call.op, out))
            /\ fetched' = [fetched EXCEPT ![call.inst] = @ \cup {call.path}]
       ELSE /\ _cache' = _cache
            /\ call' = Return(call, Append(call.events, "return"), call.data, out)
            /\ fetched' = fetched
    /\ UNCHANGED <<gw, _enable_retry, conf, backend, requested, dropped, ncalls>>

\* The action raised: NotExistingMetadataException is raised again at once,
\* another failure is retried after a sleep or raised again.
exec_except(exc) ==
    /\ InAction
    /\ exc \in Failures
    /\ IF is_not_existing(exc)
       THEN call' = Return(call, Append(call.events, exc.v), call.data, exc)
       ELSE IF should_retry(_enable_retry[call.inst], call.i, conf.retry_count)
       THEN call' = [call EXCEPT !.i = @ + 1, !.pc = "sleep",
                                 !.events = Append(@, exc.v)]
       ELSE call' = Return(call, Append(call.events, exc.v), call.data, exc)
    /\ UNCHANGED <<gw, _cache, _enable_retry, conf, backend, requested, fetched, dropped, ncalls>>

\* time.sleep(CONF.retry_count_interval), then the next turn of the loop.
exec_sleep ==
    /\ call.pc = "sleep"
    /\ call' = [call EXCEPT !.pc = "action", !.events = Append(@, "sleep"),
                            !.slept = @ + conf.retry_count_interval]
    /\ UNCHANGED <<gw, _cache, _enable_retry, conf, backend, requested, fetched,
                   dropped, ncalls>>

----------------------------------------------------------------------------
(* _get_metadata_base_url and _get_default_gateway.                        *)
(* A URL is a sequence of tokens; "%" and "default_gateway" are tokens of  *)
(* their own.                                                              *)

Placeholder == <<"%", "default_gateway", "%">>

\* sub in s
contains(s, sub) ==
    \E p \in 1 .. Len(s) - Len(sub) + 1 : SubSeq(s, p, p + Len(sub) - 1) = sub

\* s.replace(old, new), old not empty: the occurrences of old from the
\* left, none overlapping the one before it.
RECURSIVE replace(_, _, _)
replace(s, old, new) ==
    IF Len(s) < Len(old) THEN s
    ELSE IF SubSeq(s, 1, Len(old)) = old
    THEN new \o replace(SubSeq(s, Len(old) + 1, Len(s)), old, new)
    ELSE <<Head(s)>> \o replace(Tail(s), old, new)

PyTuple(v) == [t |-> "tuple", v |-> v]

\* A row of Win32_NetworkAdapterConfiguration where IPEnabled=TRUE:
\* DefaultIPGateway is None or a tuple of addresses.
Adapter(g) == [DefaultIPGateway |-> g]

Gateways == { PyNone, PyTuple(<< <<"192.168.1.1">> >>),
              PyTuple(<< <<"10.0.0.1">>, <<"fe80::1">> >>) }

RECURSIVE SeqsUpTo(_, _)
SeqsUpTo(S, n) ==
    IF n = 0 THEN {<<>>}
    ELSE LET shorter == SeqsUpTo(S, n - 1)
         IN shorter \cup {Append(q, x) : q \in shorter, x \in S}

WmiOuts == SeqsUpTo({Adapter(g) : g \in Gateways}, MaxAdapters)

Templates ==
    { <<>>,
      <<"http://", "169.254.169.254", ":8080">>,
      <<"http://", "%", "default_gateway", ":8080">>,
      <<"http://", "%", "default_gateway", "%", ":8080">>,
      <<"http://", "%", "default_gateway", "%", "/", "%", "default_gateway", "%">>,
      <<"%", "default_gateway", "%", "default_gateway", "%">> }

\* The loop of _get_default_gateway takes the one of the last adapter.
RECURSIVE default_gateway_last(_)
default_gateway_last(wmi_out) ==
    IF wmi_out = <<>> THEN <<>>
    ELSE IF wmi_out[Len(wmi_out)].DefaultIPGateway.t = "NoneType"
    THEN default_gateway_last(SubSeq(wmi_out, 1, Len(wmi_out) - 1))
    ELSE wmi_out[Len(wmi_out)].DefaultIPGateway.v[1]

\* The loop of _get_default_gateway: '' to begin with; None[0] raises
\* TypeError and the loop goes on, a tuple gives its first address and
\* the loop breaks.
RECURSIVE default_gateway_of(_)
default_gateway_of(wmi_out) ==
    IF wmi_out = <<>> THEN <<>>
    ELSE IF Head(wmi_out).DefaultIPGateway.t = "NoneType"
    THEN default_gateway_of(Tail(wmi_out))
    ELSE Head(wmi_out).DefaultIPGateway.v[1]

ServiceUnused ==
    UNCHANGED <<_cache, _enable_retry, conf, backend, call, requested, fetched,
                dropped, ncalls>>

\* _get_metadata_base_url up to the test of the placeholder: without it
\* the URL is returned as it is.
_get_metadata_base_url(metadata_base_url) ==
    /\ gw.pc \in {"idle", "done"}
    /\ gw.calls < MaxCalls
    /\ gw' = IF contains(metadata_base_url, Placeholder)
             THEN [gw EXCEPT !.pc = "query", !.metadata_base_url = metadata_base_url,
                             !.queries = 0, !.result = <<>>, !.calls = @ + 1]
             ELSE [gw EXCEPT !.pc = "done", !.metadata_base_url = metadata_base_url,
                             !.queries = 0, !.result = metadata_base_url,
                             !.calls = @ + 1]
    /\ ServiceUnused

\* _get_default_gateway: one WMI query, and the replace of its caller.
_get_default_gateway ==
    /\ gw.pc = "query"
    /\ gw' = [gw EXCEPT !.pc = "done", !.queries = @ + 1,
                        !.result = replace(gw.metadata_base_url, Placeholder,
                                           default_gateway_of(gw.wmi_out))]
    /\ ServiceUnused

----------------------------------------------------------------------------

\* The steps of a process that uses the services in S.
NextOf(S) ==
    \/ \E inst \in S : set_enable_retry(inst)
    \/ \E inst \in S : load(inst)
    \/ \E inst \in S : cleanup(inst)
    \/ \E inst \in S, d \in DataTypes, n \in Names : get_content(inst, d, n)
    \/ \E inst \in S, d \in DataTypes, v \in Versions : get_user_data(inst, d, v)
    \/ \E inst \in S, d \in DataTypes, v \in Versions : get_meta_data(inst, d, v)
    \/ \E inst \in S, e \in EncPasswords, v \in Versions : post_password(inst, e, v)
    \/ \E inst \in S, v \in Versions,
          out \in DataValues \cup {NotExistingMetadataException} \cup TransientErrors :
            is_password_set(inst, v, out)
    \/ \E out \in (IF call.op = "post_password" THEN PostValues ELSE DataValues) :
            exec_return(out)
    \/ \E exc \in {NotExistingMetadataException} \cup TransientErrors : exec_except(exc)
    \/ exec_sleep

\* One service, as in a boot run: the other one is never used.
Next == NextOf({"svc1"})

InitOne == Init /\ ~backend["svc2"]

Spec == InitOne /\ [][Next]_vars

\* Every attempt ends and every sleep ends: a call in the loop of
\* _exec_with_retry takes its next step.
ExecStep ==
    \/ \E out \in (IF call.op = "post_password" THEN PostValues ELSE DataValues) :
            exec_return(out)
    \/ \E exc \in {NotExistingMetadataException} \cup TransientErrors : exec_except(exc)
    \/ exec_sleep

SpecFair == InitOne /\ [][Next]_vars /\ WF_vars(ExecStep)

\* Two services side by side.
NextTwo == NextOf(Instances)

\* One configuration, a backend that takes passwords and one that does not.
InitTwo ==
    /\ Init
    /\ conf = [retry_count |-> 1, retry_count_interval |-> 4]
    /\ backend = [s \in Instances |-> s = "svc1"]

SpecTwo == InitTwo /\ [][NextTwo]_vars

\* A backend that builds its metadata URL, on a host with some adapters.
InitUrl ==
    /\ _cache = [s \in Instances |-> EmptyMap]
    /\ _enable_retry = [s \in Instances |-> FALSE]
    /\ conf = [retry_count |-> 5, retry_count_interval |-> 4]
    /\ backend = [s \in Instances |-> FALSE]
    /\ call = NoCall
    /\ requested = [s \in Instances |-> {}]
    /\ fetched = [s \in Instances |-> {}]
    /\ dropped = [s \in Instances |-> {}]
    /\ ncalls = 0
    /\ gw \in {NoUrlCall(w) : w \in WmiOuts}

NextUrl ==
    \/ \E t \in Templates : _get_metadata_base_url(t)
    \/ _get_default_gateway

SpecUrl == InitUrl /\ [][NextUrl]_vars

----------------------------------------------------------------------------
(* What a call did.                                                        *)

Done == call.pc = "done"

IsRead == call.op \in ReadOps

\* The calls that run their action through _exec_with_retry.
ViaRetry == call.op \in ReadOps \cup {"post_password"}

IsAttempt(e) == e \notin {"hit", "sleep"}

Attempts(c) == Cardinality({k \in 1 .. Len(c.events) : IsAttempt(c.events[k])})

Sleeps(c) == Cardinality({k \in 1 .. Len(c.events) : c.events[k] = "sleep"})

\* The step starts a public call.
Starts == ncalls' = ncalls + 1

PasswordPath == <<"openstack", "/", "latest", "/", "password">>

\* '{"uuid":"abc"}' as a str and as a unicode string, and what it parses to.
JsonDocument == Str(<<"{", Quote, "uuid", Quote, ":", Quote, "abc", Quote, "}">>)

UnicodeDocument == Unicode(JsonDocument.v)

ParsedDocument == PyDict([k \in {<<"uuid">>} |-> Unicode(<<"abc">>)])

----------------------------------------------------------------------------
(* C1, as stated: when a read accessor asks for a path that a read        *)
(* accessor has asked for before, with no load() in between, the call is a *)
(* cache hit and makes no _get_data, so that the path is fetched at most   *)
(* once.  It fails: a failed fetch caches nothing.                         *)
C1_FetchedAtMostOnce ==
    (IsRead /\ call.path \in call.requested0)
        => (Done /\ Attempts(call) = 0 /\ call.events[1] = "hit")

(* C1, amended: once a read accessor got the path from _get_data, a later  *)
(* read of the path with no load() in between is a cache hit: the call is  *)
(* over at once, with no _get_data.                                        *)
C1_SecondReadIsCacheHit ==
    [][(Starts /\ call'.op \in ReadOps /\ call'.path \in fetched[call'.inst])
          => (call'.pc = "done" /\ Attempts(call') = 0 /\ call'.events[1] = "hit"
              /\ fetched' = fetched /\ _cache' = _cache)]_vars

C1_Witness ==
    /\ IsRead /\ Done
    /\ call.path \in call.requested0
    /\ call.path \in fetched[call.inst]
    /\ call.events[1] = "hit"

(* C2: after load() the cache is empty, and a read of a path that was      *)
(* cached before the load() and not read since misses the cache and goes   *)
(* to _get_data again.                                                     *)
C2_LoadClearsCache ==
    [][/\ (Starts /\ call'.op = "load") => _cache'[call'.inst] = EmptyMap
       /\ (Starts /\ call'.op \in ReadOps
             /\ call'.path \in dropped[call'.inst] \ fetched[call'.inst])
            => (call'.pc = "action" /\ call'.events = <<>>)]_vars

C2_Witness ==
    /\ IsRead /\ Done
    /\ call.path \in dropped[call.inst]
    /\ call.events[1] = "return"
    /\ call.cache0 = EmptyMap

(* C3: an action that raises NotExistingMetadataException on its first     *)
(* attempt is attempted once, with no sleep, and the exception is raised   *)
(* again, with retry enabled or not and for every retry_count.             *)
C3_NotExistingNotRetried ==
    (ViaRetry /\ call.events # <<>> /\ call.events[1] = NotExistingMetadataException.v)
        => /\ Done
           /\ call.events = <<NotExistingMetadataException.v>>
           /\ call.slept = 0
           /\ call.result = NotExistingMetadataException

C3_Witness ==
    /\ ViaRetry /\ Done
    /\ _enable_retry[call.inst] /\ conf.retry_count >= 1
    /\ call.events = <<NotExistingMetadataException.v>>

(* C4: with retry enabled and retry_count = N >= 0, an action that fails   *)
(* with a transient error on every attempt is attempted N + 1 times, with  *)
(* N sleeps of the configured interval, and the last failure is raised.    *)
AllTransient(c) ==
    \A k \in 1 .. Len(c.events) :
        IsAttempt(c.events[k]) => Exc(c.events[k]) \in TransientErrors

C4_AttemptsOnTransient ==
    (ViaRetry /\ Done /\ _enable_retry[call.inst] /\ conf.retry_count >= 0
       /\ Attempts(call) >= 1 /\ AllTransient(call))
        => /\ Attempts(call) = conf.retry_count + 1
           /\ Sleeps(call) = conf.retry_count
           /\ call.slept = conf.retry_count * conf.retry_count_interval
           /\ call.result = Exc(call.events[Len(call.events)])

C4_Witness ==
    /\ ViaRetry /\ Done /\ _enable_retry[call.inst]
    /\ conf.retry_count = 3
    /\ Attempts(call) = 4 /\ AllTransient(call)

(* C5, as stated: retry_count is the maximum number of attempts, so with   *)
(* retry_count >= 1 one call never runs its action more than retry_count   *)
(* times.  The loop counts the retries, not the attempts.                  *)
C5_AtMostRetryCountAttempts ==
    (ViaRetry /\ conf.retry_count >= 1) => Attempts(call) <= conf.retry_count

(* C6: retry is disabled on a new instance, and while it is disabled a     *)
(* failing action is attempted once, with no sleep, and its failure is     *)
(* raised unchanged, for every retry_count.                                *)
C6_DisabledNoRetry ==
    /\ \A s \in Instances : ~_enable_retry[s]
    /\ [](\A s \in Instances :
            (ViaRetry /\ call.inst = s /\ ~_enable_retry[s] /\ call.events # <<>>
               /\ call.events[1] # "hit" /\ call.events[1] # "return")
                => /\ Done
                   /\ Len(call.events) = 1
                   /\ call.slept = 0
                   /\ call.result = Exc(call.events[1]))

C6_Witness ==
    /\ ViaRetry /\ Done /\ ~_enable_retry[call.inst]
    /\ conf.retry_count >= 1
    /\ call.result \in TransientErrors

(* C7, as stated: a read either returns a value and leaves the path in    *)
(* the cache, or fails and leaves the cache as it was before the call.     *)
(* It fails for get_meta_data: the fetched str is cached before json.loads *)
(* raises on it.                                                           *)
C7_ReturnsOrCacheUntouched ==
    (IsRead /\ Done)
        => \/ ~is_exc(call.result) /\ cache_has(_cache[call.inst], call.path)
           \/ is_exc(call.result) /\ _cache[call.inst] = call.cache0

(* C7, amended: the fetch of a read has no partial result.  Either         *)
(* _get_cache_data gave the call its data, and then the cache is the one   *)
(* before the call with the path set to that data, or the fetch failed,    *)
(* and then the call raises that failure and the cache is the one before   *)
(* the call; while the call runs the cache is unchanged.  get_content and  *)
(* get_user_data raise only when the fetch failed; get_meta_data may also  *)
(* raise from json.loads, after the str was cached.                        *)
C7_FetchCachedOrNothing ==
    IsRead =>
        IF Done /\ call.data # Unset
        THEN /\ cache_has(_cache[call.inst], call.path)
             /\ _cache[call.inst][call.path] = call.data
             /\ \A p \in DOMAIN _cache[call.inst] \ {call.path} :
                    cache_has(call.cache0, p) /\ call.cache0[p] = _cache[call.inst][p]
             /\ DOMAIN call.cache0 \subseteq DOMAIN _cache[call.inst]
             /\ is_exc(call.result) => call.op = "get_meta_data"
        ELSE /\ _cache[call.inst] = call.cache0
             /\ Done => /\ is_exc(call.result)
                        /\ call.result = Exc(call.events[Len(call.events)])

C7_Witness ==
    /\ IsRead /\ Done
    /\ call.data # Unset
    /\ is_exc(call.result)
    /\ ~cache_has(call.cache0, call.path)

(* C8, as stated: between two load() calls the cache only grows and no    *)
(* entry changes, and every read of a cached path returns the cached       *)
(* value, with no _get_data.  It fails for get_meta_data, which returns    *)
(* what json.loads makes of a cached str.                                  *)
C8_ReadsReturnTheEntry ==
    [][\A s \in Instances :
         /\ ~(Starts /\ call'.op = "load" /\ call'.inst = s)
               => \A p \in DOMAIN _cache[s] :
                     cache_has(_cache'[s], p) /\ _cache'[s][p] = _cache[s][p]
         /\ (Starts /\ call'.op \in ReadOps /\ call'.inst = s
               /\ cache_has(_cache[s], call'.path))
               => /\ call'.pc = "done"
                  /\ call'.result = _cache[s][call'.path]
                  /\ Attempts(call') = 0]_vars

(* C8, amended: between two load() calls the cache only grows and no entry *)
(* changes, and a read of a cached path makes no _get_data and works on    *)
(* the cached value whatever the backend would answer now: get_content and *)
(* get_user_data return it, get_meta_data returns it when it is not a str  *)
(* and otherwise what json.loads makes of it, a ValueError included.       *)
C8_EntriesNeverChange ==
    [][\A s \in Instances :
         /\ ~(Starts /\ call'.op = "load" /\ call'.inst = s)
               => \A p \in DOMAIN _cache[s] :
                     cache_has(_cache'[s], p) /\ _cache'[s][p] = _cache[s][p]
         /\ (Starts /\ call'.op \in ReadOps /\ call'.inst = s
               /\ cache_has(_cache[s], call'.path))
               => LET entry == _cache[s][call'.path]
                  IN /\ call'.pc = "done"
                     /\ call'.data = entry
                     /\ Attempts(call') = 0
                     /\ call'.op # "get_meta_data" => call'.result = entry
                     /\ call'.op = "get_meta_data" =>
                          /\ entry.t # "str" => call'.result = entry
                          /\ entry.t = "str" => call'.result = json_loads(entry.v)
                          /\ entry = JsonDocument => call'.result = ParsedDocument
                          /\ entry = Str(<<>>) => call'.result = Exc("ValueError")]_vars

C8_Witness ==
    /\ call.op = "get_meta_data" /\ Done
    /\ Attempts(call) = 0
    /\ call.cache0 = _cache[call.inst]
    /\ Cardinality(DOMAIN _cache[call.inst]) >= 2
    /\ _cache[call.inst][call.path] = JsonDocument
    /\ call.result = ParsedDocument

(* C9: is_password_set makes exactly one _get_data, with no sleep, also    *)
(* when the password path is cached and when retry is enabled and the      *)
(* fetch fails, and it leaves the cache as it was.                         *)
C9_PasswordBypassesCacheAndRetry ==
    call.op = "is_password_set"
        => /\ Done
           /\ Len(call.events) = 1 /\ Attempts(call) = 1
           /\ call.slept = 0
           /\ _cache[call.inst] = call.cache0
           /\ is_exc(call.result) => call.result = Exc(call.events[1])

C9_Witness ==
    /\ call.op = "is_password_set"
    /\ cache_has(call.cache0, call.path)
    /\ _enable_retry[call.inst] /\ conf.retry_count >= 1
    /\ call.result \in TransientErrors

(* C10: is_password_set returns False when _get_data returns empty data    *)
(* for the password path and True when it returns data that is not empty.  *)
EmptyData(d) == d = Str(<<>>) \/ d = Unicode(<<>>) \/ d = PyList(<<>>) \/ d = PyDict(EmptyMap)

C10_PasswordSetIffData ==
    (call.op = "is_password_set" /\ call.data # Unset)
        => /\ EmptyData(call.data) => call.result = PyBool(FALSE)
           /\ ~EmptyData(call.data) => call.result = PyBool(TRUE)

C10_Witness ==
    /\ call.op = "is_password_set"
    /\ call.path = PasswordPath
    /\ call.data = Str(<<>>)
    /\ call.result = PyBool(FALSE)

(* C11: on a backend that does not override _post_data, post_password     *)
(* calls _post_data once, never sleeps, raises                             *)
(* NotExistingMetadataException, also with retry enabled, and leaves the   *)
(* cache as it was.                                                        *)
C11_PostPasswordNotSupported ==
    (call.op = "post_password" /\ ~backend[call.inst])
        => /\ call.pc # "sleep"
           /\ Sleeps(call) = 0 /\ call.slept = 0
           /\ _cache[call.inst] = call.cache0
           /\ Done => /\ call.events = <<NotExistingMetadataException.v>>
                      /\ call.result = NotExistingMetadataException

C11_Witness ==
    /\ call.op = "post_password" /\ ~backend[call.inst] /\ Done
    /\ _enable_retry[call.inst] /\ conf.retry_count >= 1
    /\ call.cache0 # EmptyMap

(* C12, as stated: get_meta_data returns the parsed JSON document when     *)
(* _get_data returned a string, str or unicode, and the value itself when  *)
(* _get_data returned a structured value, and a get_meta_data of a path    *)
(* fetched since the last load() works on the same value again.  It fails: *)
(* a unicode string is returned as it is.                                  *)
IsString(d) == d.t \in {"str", "unicode"}

C12_MetaDataParsed ==
    /\ [](call.op = "get_meta_data" /\ Done /\ call.data # Unset
            => /\ IsString(call.data) => call.result = json_loads(call.data.v)
               /\ call.data \in {JsonDocument, UnicodeDocument}
                    => call.result = ParsedDocument
               /\ ~IsString(call.data) => call.result = call.data)
    /\ [][(Starts /\ call'.op = "get_meta_data"
             /\ call'.path \in fetched[call'.inst])
            => (call'.pc = "done" /\ Attempts(call') = 0
                /\ call'.data = _cache[call'.inst][call'.path])]_vars

(* C13: cleanup() can be called whenever a call can be made, it does not   *)
(* fail and it leaves the cache and the retry flag of every instance as    *)
(* they were.                                                              *)
C13_CleanupIsNoOp ==
    /\ [](CanCall => ENABLED cleanup("svc1"))
    /\ [][(Starts /\ call'.op = "cleanup")
            => /\ _cache' = _cache
               /\ _enable_retry' = _enable_retry
               /\ call'.pc = "done"
               /\ call'.result = PyNone]_vars

C13_Witness ==
    /\ call.op = "cleanup" /\ Done
    /\ call.cache0 # EmptyMap
    /\ _cache[call.inst] = call.cache0
    /\ dropped[call.inst] = {}
    /\ _enable_retry[call.inst]

(* C16: NotExistingMetadataException is not retried at any attempt: the    *)
(* attempt that raises it, the first one or one that follows transient     *)
(* failures, is the last event of the call, no sleep follows it, and the   *)
(* call raises NotExistingMetadataException.                               *)
C16_NotExistingEndsTheCall ==
    ViaRetry =>
        \A k \in 1 .. Len(call.events) :
            call.events[k] = NotExistingMetadataException.v
                => /\ Done
                   /\ k = Len(call.events)
                   /\ call.result = NotExistingMetadataException

C16_Witness ==
    /\ ViaRetry /\ Done /\ _enable_retry[call.inst]
    /\ Len(call.events) = 5
    /\ Exc(call.events[1]) \in TransientErrors
    /\ Exc(call.events[3]) \in TransientErrors
    /\ call.events[5] = NotExistingMetadataException.v
    /\ call.result = NotExistingMetadataException

(* What the attempts of a call were.                                       *)
TransientFailures(c) ==
    Cardinality({k \in 1 .. Len(c.events) : Exc(c.events[k]) \in TransientErrors})

Returned(c) == {k \in 1 .. Len(c.events) : c.events[k] = "return"}

(* C17, as stated: with retry enabled, a read whose _get_data fails k      *)
(* times with a transient error and then returns makes k + 1 attempts,     *)
(* returns the value of the attempt that returned, has stored that value   *)
(* under the path and makes no further attempt.  It fails for              *)
(* get_meta_data, which returns what json.loads makes of a fetched str.    *)
C17_ReturnsTheFetchedValue ==
    (IsRead /\ _enable_retry[call.inst] /\ Returned(call) # {})
        => /\ Done
           /\ Attempts(call) = TransientFailures(call) + 1
           /\ \A k \in Returned(call) :
                \A j \in 1 .. Len(call.events) :
                    IsAttempt(call.events[j]) => j <= k
           /\ call.data # Unset
           /\ _cache[call.inst][call.path] = call.data
           /\ call.result = call.data

(* C17, amended: with retry enabled, a read whose _get_data fails k times  *)
(* with a transient error and then returns makes k + 1 attempts and k      *)
(* sleeps, k <= retry_count, makes no attempt after the one that returned, *)
(* and stores the returned value under the normalized path and nothing     *)
(* else.  get_content and get_user_data return that value; get_meta_data   *)
(* returns it when it is not a str and otherwise what json.loads makes of  *)
(* it, a ValueError included.                                              *)
C17_SuccessAfterTransientFailures ==
    (IsRead /\ _enable_retry[call.inst] /\ Returned(call) # {})
        => /\ Done
           /\ Attempts(call) = TransientFailures(call) + 1
           /\ Sleeps(call) = TransientFailures(call)
           /\ TransientFailures(call) > 0
                => TransientFailures(call) <= conf.retry_count
           /\ \A k \in Returned(call) :
                \A j \in 1 .. Len(call.events) :
                    IsAttempt(call.events[j]) => j <= k
           /\ call.data # Unset
           /\ _cache[call.inst] =
                [p \in DOMAIN call.cache0 \cup {call.path} |->
                    IF p = call.path THEN call.data ELSE call.cache0[p]]
           /\ call.path = normpath(call.path)
           /\ call.op # "get_meta_data" => call.result = call.data
           /\ call.op = "get_meta_data" =>
                /\ call.data.t # "str" => call.result = call.data
                /\ call.data.t = "str" => call.result = json_loads(call.data.v)
                /\ call.data = JsonDocument => call.result = ParsedDocument
                /\ call.data = Str(<<>>) => call.result = Exc("ValueError")

C17_Witness ==
    /\ call.op = "get_meta_data" /\ _enable_retry[call.inst] /\ Done
    /\ conf.retry_count = 2
    /\ TransientFailures(call) = 2
    /\ call.events[5] = "return"
    /\ call.cache0 # EmptyMap
    /\ call.data = JsonDocument
    /\ call.result = ParsedDocument

(* C18: inside one _exec_with_retry a sleep comes only directly after an   *)
(* attempt that failed with a transient error and the next thing after it  *)
(* is an attempt; an attempt that is not the last one is followed by a     *)
(* sleep; nothing follows an attempt that returned or raised               *)
(* NotExistingMetadataException; a finished call slept once less than it   *)
(* attempted.                                                              *)
IsTransient(e) == Exc(e) \in TransientErrors

C18_SleepsBetweenAttempts ==
    ViaRetry =>
        LET n == Len(call.events)
        IN /\ \A k \in 1 .. n :
                /\ call.events[k] = "sleep"
                     => /\ k > 1 /\ IsTransient(call.events[k - 1])
                        /\ k < n => IsAttempt(call.events[k + 1])
                        /\ k = n => call.pc = "action"
                /\ (IsTransient(call.events[k]) /\ k < n)
                     => call.events[k + 1] = "sleep"
                /\ (IsAttempt(call.events[k]) /\ ~IsTransient(call.events[k]))
                     => /\ Done
                        /\ \A j \in k + 1 .. n : call.events[j] = "hit"
           /\ call.pc = "sleep" => (n > 0 /\ IsTransient(call.events[n]))
           /\ (Done /\ Attempts(call) >= 1) => Sleeps(call) = Attempts(call) - 1
           /\ Attempts(call) = 0 => Sleeps(call) = 0

C18_Witness ==
    /\ ViaRetry /\ Done
    /\ Attempts(call) = 3 /\ Sleeps(call) = 2
    /\ IsTransient(call.events[Len(call.events)])

(* C14: _get_metadata_base_url returns the URL with every                  *)
(* %default_gateway% replaced by the first address of the first adapter,   *)
(* in the order of the query, whose DefaultIPGateway is not None, or by    *)
(* the empty string when there is none, after one WMI query; a URL without *)
(* the placeholder is returned as it is, with no WMI query.                *)
HasGateway(adapter) == adapter.DefaultIPGateway # PyNone

ExpectedGateway(wmi_out) ==
    IF \A k \in 1 .. Len(wmi_out) : ~HasGateway(wmi_out[k]) THEN <<>>
    ELSE LET first == CHOOSE k \in 1 .. Len(wmi_out) :
                         /\ HasGateway(wmi_out[k])
                         /\ \A j \in 1 .. k - 1 : ~HasGateway(wmi_out[j])
         IN wmi_out[first].DefaultIPGateway.v[1]

C14_GatewaySubstituted ==
    /\ gw.pc = "query" =>
         (contains(gw.metadata_base_url, Placeholder) /\ gw.queries = 0)
    /\ gw.pc = "done" =>
         LET g == ExpectedGateway(gw.wmi_out)
         IN /\ ~contains(gw.metadata_base_url, Placeholder)
                 => (gw.result = gw.metadata_base_url /\ gw.queries = 0)
            /\ contains(gw.metadata_base_url, Placeholder)
                 => /\ gw.queries = 1
                    /\ gw.result = replace(gw.metadata_base_url, Placeholder, g)
            /\ gw.metadata_base_url = <<"http://", "%", "default_gateway", "%", ":8080">>
                 => gw.result = <<"http://">> \o g \o <<":8080">>
            /\ gw.metadata_base_url =
                 <<"http://", "%", "default_gateway", "%", "/", "%", "default_gateway", "%">>
                 => gw.result = <<"http://">> \o g \o <<"/">> \o g

C14_Witness ==
    /\ gw.pc = "done" /\ gw.calls = 2 /\ gw.queries = 1
    /\ gw.wmi_out = <<Adapter(PyNone),
                      Adapter(PyTuple(<< <<"10.0.0.1">>, <<"fe80::1">> >>)),
                      Adapter(PyTuple(<< <<"192.168.1.1">> >>))>>
    /\ gw.result = <<"http://", "10.0.0.1", "/", "10.0.0.1">>

(* The segments of a path, by the places of its tokens.                    *)
SegStart(p, k) == k = 1 \/ p[k - 1] = "/"

SegEnd(p, k) == k = Len(p) \/ p[k + 1] = "/"

DotSegAt(p, k) == p[k] = "." /\ SegStart(p, k) /\ SegEnd(p, k)

DotDotSegAt(p, k) ==
    /\ k < Len(p) /\ p[k] = "." /\ p[k + 1] = "."
    /\ SegStart(p, k) /\ SegEnd(p, k + 1)

\* A separator with nothing behind it: doubled, or at the end of a path
\* that is more than the root.
RedundantSepAt(p, k) ==
    /\ p[k] = "/"
    /\ (k < Len(p) /\ p[k + 1] = "/") \/ (k = Len(p) /\ k > 1)

\* The paths the service looks up in the cache, stores there or hands to
\* _get_data and _post_data.
UsedPaths ==
    UNION {DOMAIN _cache[s] : s \in Instances}
        \cup (IF call.op \in ReadOps \cup {"is_password_set", "post_password"}
              THEN {call.path} ELSE {})

(* C15, as stated: a path used as a cache key or handed to the backend has *)
(* no empty segment, no '.' segment and no '..' segment, whatever the      *)
(* arguments.  It fails: normpath keeps the '..' that lead out of a        *)
(* relative path.                                                          *)
C15_NoDotSegments ==
    \A p \in UsedPaths :
        \A k \in 1 .. Len(p) :
            ~DotSegAt(p, k) /\ ~DotDotSegAt(p, k) /\ ~RedundantSepAt(p, k)

(* C15, amended: a path used as a cache key or handed to the backend is    *)
(* what posixpath.normpath returns: not empty, no separator doubled but    *)
(* the two that may begin it, none at its end unless it is only            *)
(* separators, no '.' segment unless the path is '.', and '..' segments    *)
(* only one after the other at the beginning of a relative path.           *)
C15_PathsAreNormpaths ==
    \A p \in UsedPaths :
        /\ p # <<>>
        /\ \A k \in 1 .. Len(p) :
            /\ DotSegAt(p, k) => p = <<".">>
            /\ DotDotSegAt(p, k) => (k = 1 \/ (k > 3 /\ DotDotSegAt(p, k - 3)))
            /\ RedundantSepAt(p, k) =>
                 \/ k = 1 /\ Len(p) > 1 /\ (Len(p) > 2 => p[3] # "/")
                 \/ p = <<"/", "/">>

C15_Witness ==
    /\ call.op = "get_content" /\ Done
    /\ call.path = <<".", ".">>
    /\ call.path \in DOMAIN _cache[call.inst]
    /\ <<"openstack", "/", "latest", "/", "user_data">> \in DOMAIN _cache[call.inst]

(* C19: every call of _exec_with_retry ends, by a return or by a raise,    *)
(* whatever the attempts do and whatever retry_count is, zero and negative *)
(* included, when every attempt and every sleep ends; it makes at most     *)
(* retry_count + 1 attempts when retry is enabled and retry_count is       *)
(* positive, and one otherwise.                                            *)
AttemptCeiling ==
    IF _enable_retry[call.inst] /\ conf.retry_count > 0
    THEN conf.retry_count + 1 ELSE 1

C19_ExecWithRetryTerminates ==
    /\ [](ViaRetry => (Attempts(call) <= AttemptCeiling /\ call.i <= AttemptCeiling - 1))
    /\ (ViaRetry /\ ~Done) ~> (ViaRetry /\ Done)

C19_Witness ==
    /\ ViaRetry /\ Done /\ _enable_retry[call.inst]
    /\ conf.retry_count = -1
    /\ IsTransient(call.events[Len(call.events)])
    /\ Attempts(call) = 1

(* C20: each instance has its own cache: a step changes the cache of the   *)
(* instance the call is made on and of no other one, and a read of a path  *)
(* that the instance's own cache does not hold is not a cache hit, whatever *)
(* the other instance has cached.                                          *)
C20_CacheOfOneInstance ==
    /\ [](IsRead /\ call.path \notin DOMAIN call.cache0
            => (call.events = <<>> \/ call.events[1] # "hit"))
    /\ [][\A s \in Instances :
            /\ s # call'.inst => _cache'[s] = _cache[s]
            /\ Starts /\ call'.inst = s => call'.cache0 = _cache[s]]_vars

C20_Witness ==
    /\ IsRead /\ Done /\ call.inst = "svc2"
    /\ call.path \in DOMAIN _cache["svc1"]
    /\ call.events[1] = "return"
    /\ _cache["svc2"][call.path] # _cache["svc1"][call.path]
    /\ call.cache0 = EmptyMap

====
